---- MODULE Spec2Model ----
(***************************************************************************)
(* Model of src/main.py: the AWS Lambda data pipeline                      *)
(*   validate environment -> fetch (HTTP GET with urllib3 Retry)           *)
(*   -> process (pandas filter price > 50) -> upload (S3 put, 3 attempts)  *)
(*   -> notify (SNS publish) -> return {statusCode, body}.                 *)
(* One invocation of lambda_handler is one behaviour.  Every external call *)
(* (HTTP request, put_object, publish) is one step whose outcome is chosen *)
(* nondeterministically from the outcomes the callee can produce.          *)
(***************************************************************************)
EXTENDS Integers, Sequences, FiniteSets, TLC

VARIABLES
    env,            \* os.environ restricted to the four variables read
    pc,             \* position of lambda_handler
    fetchLog,       \* responses to the HTTP requests issued so far
    raw_data,       \* lambda_handler's raw_data
    txt_buffer,     \* lambda_handler's txt_buffer
    putLog,         \* put_object calls made so far (outcome and Body)
    sleeps,         \* delays slept by time.sleep in upload_to_s3
    upload_status,  \* lambda_handler's upload_status
    pubLog,         \* sns_client.publish calls made so far
    pending,        \* message to notify and value to return afterwards
    result          \* value returned by lambda_handler

vars == <<env, pc, fetchLog, raw_data, txt_buffer, putLog, sleeps,
          upload_status, pubLog, pending, result>>

(***************************************************************************)
(* Bounds of the model                                                     *)
(***************************************************************************)
MaxBatch == 2       \* longest list of records the API returns

(***************************************************************************)
(* Program constants                                                       *)
(***************************************************************************)
RetryTotal == 3         \* Retry(total=3)
RetriesOffByOne == 3 + 1
Retries == 3            \* upload_to_s3(..., retries=3, ...)
Delay == 5              \* upload_to_s3(..., delay=5)
PriceThreshold == 50    \* df['price'] > 50
DefaultAdapterRetries == 0  \* the session's adapter for any prefix that
                            \* line 42 does not re-mount
status_forcelist_404 == {404, 500, 502, 503, 504}
status_forcelist == {500, 502, 503, 504}

RequiredVars_noKey == <<"API_URL", "S3_BUCKET", "SNS_TOPIC_ARN">>
RequiredVars == <<"API_URL", "S3_BUCKET", "S3_KEY", "SNS_TOPIC_ARN">>

(***************************************************************************)
(* Python values                                                           *)
(***************************************************************************)
NoneStr == "None"           \* os.getenv of an unset variable
HttpsUrl == "https://api"
HttpUrl == "http://api"
NoSchemeUrl == "api"        \* requests raises MissingSchema, sends nothing

\* truthiness of a string or None, as in `not os.getenv(var)`
TruthyStr(s) == s # NoneStr /\ s # ""

EnvValues(var) ==
    IF var = "API_URL" THEN {NoneStr, "", HttpsUrl, HttpUrl, NoSchemeUrl}
    ELSE {NoneStr, "", "set"}

\* A price cell of a record: a number, a non-numeric string, or no value.
NumPrice(n) == [kind |-> "num", val |-> n]
StrPrice == [kind |-> "str", val |-> 0]
NoPrice == [kind |-> "absent", val |-> 0]
Prices == {NumPrice(PriceThreshold), NumPrice(PriceThreshold + 1),
           StrPrice, NoPrice}

\* A record of the batch: its position in the API's list and its price.
BatchesOfLen(n) ==
    {[i \in 1..n |-> [id |-> i, price |-> f[i]]] : f \in [1..n -> Prices]}
Batches(n) == UNION {BatchesOfLen(k) : k \in 0..n}

\* Python values that raw_data can hold.
PyNone == [kind |-> "none", items |-> <<>>]
JsonList(b) == [kind |-> "list", items |-> b]
JsonObject == [kind |-> "object", items |-> <<>>]   \* a non-empty dict
JsonValues == {PyNone, JsonObject} \cup {JsonList(b) : b \in Batches(MaxBatch)}

\* `not x` for a parsed JSON value
Truthy(v) == v.kind = "object" \/ (v.kind = "list" /\ v.items # <<>>)

(***************************************************************************)
(* fetch_data_with_retry                                                   *)
(***************************************************************************)
\* What one HTTP request can come back with.  json is the body of a 200
\* response: a JSON value, or text that does not parse.
NotJson == [kind |-> "invalid", items |-> <<>>]
HttpResponse(s, j) == [type |-> "http", status |-> s, json |-> j]
ConnectionError == [type |-> "connection_error", status |-> 0, json |-> PyNone]
Timeout == [type |-> "timeout", status |-> 0, json |-> PyNone]
ErrorStatuses == {400, 404, 500, 501, 502, 503, 504}
Responses ==
    {HttpResponse(200, j) : j \in JsonValues \cup {NotJson}}
    \cup {HttpResponse(s, PyNone) : s \in ErrorStatuses}
    \cup {ConnectionError, Timeout}

\* Retries the adapter serving the URL allows: the Retry object of lines
\* 36-41 is mounted for the prefix "https://" only; any other URL is served
\* by the session's default adapter, which does not retry.
MaxRetries(api_url) ==
    IF api_url = HttpsUrl THEN RetryTotal ELSE DefaultAdapterRetries

\* Does the Retry object count this outcome of a GET as retryable?  A
\* response is, when its status is in status_forcelist; a connection error
\* and a timeout are, because total=3 leaves connect and read unlimited and
\* GET is in allowed_methods.
IsRetryableAnyErrorStatus(r) ==
    \/ r.type \in {"connection_error", "timeout"}
    \/ r.type = "http" /\ r.status >= 400

IsRetryable(r) ==
    \/ r.type \in {"connection_error", "timeout"}
    \/ r.type = "http" /\ r.status \in status_forcelist

\* Lines 46-71 once the adapter has stopped retrying on response r:
\* raise_for_status, response.json(), and the except clauses.
FetchReturn(r) ==
    IF r.type = "http" /\ r.status = 200
    THEN IF r.json = NotJson THEN PyNone ELSE r.json
    ELSE PyNone

(***************************************************************************)
(* process_data                                                            *)
(***************************************************************************)
NoBuffer == [kind |-> "none", lines |-> <<>>, pos |-> 0]
HeaderRow == [id |-> 0, price |-> [kind |-> "header", val |-> 0]]

\* df[df['price'] > 50]: a NaN cell compares False, a number compares by >
PassesFilterGE(r) == r.price.kind = "num" /\ r.price.val >= PriceThreshold
PassesFilter(r) == r.price.kind = "num" /\ r.price.val > PriceThreshold

\* StringIO after to_csv(sep="\t", index=False): header line, one line per
\* row, cursor at the end of what was written.
ToCsv(rows) ==
    [kind |-> "buffer", lines |-> <<HeaderRow>> \o rows, pos |-> Len(rows) + 1]

\* mutants: an empty list gives an empty frame that is written out; a
\* filter that selects nothing is reported as a failure
process_dataEmptyFrame(data) ==
    IF data.kind = "list" /\ data.items = <<>>
    THEN [kind |-> "buffer", lines |-> <<HeaderRow>>, pos |-> 1]
    ELSE IF ~Truthy(data) THEN NoBuffer
    ELSE IF data.kind # "list" THEN NoBuffer
    ELSE IF \A i \in 1..Len(data.items) : data.items[i].price.kind = "absent"
         THEN NoBuffer
    ELSE IF \E i \in 1..Len(data.items) : data.items[i].price.kind = "str"
         THEN NoBuffer
    ELSE ToCsv(SelectSeq(data.items, PassesFilter))

process_dataNoRowsFails(data) ==
    IF ~Truthy(data) THEN NoBuffer
    ELSE IF data.kind # "list" THEN NoBuffer
    ELSE IF \A i \in 1..Len(data.items) : data.items[i].price.kind = "absent"
         THEN NoBuffer
    ELSE IF \E i \in 1..Len(data.items) : data.items[i].price.kind = "str"
         THEN NoBuffer
    ELSE IF SelectSeq(data.items, PassesFilter) = <<>> THEN NoBuffer
    ELSE ToCsv(SelectSeq(data.items, PassesFilter))

process_data(data) ==
    IF ~Truthy(data) THEN NoBuffer                  \* ValueError, line 90
    ELSE IF data.kind # "list" THEN NoBuffer        \* DataFrame(dict of scalars)
    ELSE IF \A i \in 1..Len(data.items) : data.items[i].price.kind = "absent"
         THEN NoBuffer                              \* KeyError: 'price'
    ELSE IF \E i \in 1..Len(data.items) : data.items[i].price.kind = "str"
         THEN NoBuffer                              \* TypeError: str > int
    ELSE ToCsv(SelectSeq(data.items, PassesFilter))

(***************************************************************************)
(* Results returned by lambda_handler, messages passed to the notifier     *)
(***************************************************************************)
NoResult == [statusCode |-> 0, body |-> ""]
MissingEnvResult ==
    [statusCode |-> 500, body |-> "Missing required environment variables."]
FetchFailedResult == [statusCode |-> 500, body |-> "Data fetch failed."]
ProcessFailedResult == [statusCode |-> 500, body |-> "Data processing failed."]
UploadFailedResult_200 == [statusCode |-> 200, body |-> "S3 upload failed."]
UploadFailedResult == [statusCode |-> 500, body |-> "S3 upload failed."]
SuccessResult == [statusCode |-> 200, body |-> "Pipeline completed successfully."]

FailureSubjectCopied == "Data Pipeline Success Notification"
FailureSubject == "Data Pipeline Failure Notification"
SuccessSubject == "Data Pipeline Success Notification"

NoPending == [message |-> "", result |-> NoResult]

(***************************************************************************)
(* Initial state: lambda_handler is entered with some environment          *)
(***************************************************************************)
Envs ==
    {e \in [{"API_URL", "S3_BUCKET", "S3_KEY", "SNS_TOPIC_ARN"}
               -> {NoneStr, "", "set", HttpsUrl, HttpUrl, NoSchemeUrl}] :
        \A v \in DOMAIN e : e[v] \in EnvValues(v)}

Init ==
    /\ env \in Envs
    /\ pc = "validate"
    /\ fetchLog = <<>>
    /\ raw_data = PyNone
    /\ txt_buffer = NoBuffer
    /\ putLog = <<>>
    /\ sleeps = <<>>
    /\ upload_status = "unset"
    /\ pubLog = <<>>
    /\ pending = NoPending
    /\ result = NoResult

(***************************************************************************)
(* validate_environment_vars and lines 191-201 of lambda_handler           *)
(***************************************************************************)
missing_vars(required_vars) ==
    SelectSeq(required_vars, LAMBDA var : ~TruthyStr(env[var]))

ValidateEnv ==
    /\ pc = "validate"
    /\ IF missing_vars(RequiredVars) # <<>>
       THEN /\ pending' = [message |-> "Missing required environment variables.",
                           result |-> MissingEnvResult]
            /\ pc' = "notify_failure"
       ELSE /\ pc' = "fetch"
            /\ UNCHANGED pending
    /\ UNCHANGED <<env, fetchLog, raw_data, txt_buffer, putLog, sleeps,
                   upload_status, pubLog, result>>

(***************************************************************************)
(* One HTTP request of session.get(api_url, timeout=10), lines 35-71       *)
(***************************************************************************)
SessionGet ==
    /\ pc = "fetch"
    /\ IF env["API_URL"] \notin {HttpsUrl, HttpUrl}
       THEN \* no adapter serves the URL: RequestException, line 66
            /\ raw_data' = PyNone
            /\ pc' = "fetched"
            /\ UNCHANGED fetchLog
       ELSE \E r \in Responses :
            /\ fetchLog' = Append(fetchLog, r)
            /\ IF IsRetryable(r) /\ Len(fetchLog) < MaxRetries(env["API_URL"])
               THEN \* the adapter backs off and sends the request again
                    /\ pc' = "fetch"
                    /\ UNCHANGED raw_data
               ELSE /\ raw_data' = FetchReturn(r)
                    /\ pc' = "fetched"
    /\ UNCHANGED <<env, txt_buffer, putLog, sleeps, upload_status, pubLog,
                   pending, result>>

\* mutant: the failure of the fetch is not acted upon
CheckFetchNoReturn ==
    /\ pc = "fetched"
    /\ pc' = "process"
    /\ UNCHANGED <<env, fetchLog, raw_data, txt_buffer, putLog, sleeps,
                   upload_status, pubLog, pending, result>>

\* lines 204-212
CheckFetch ==
    /\ pc = "fetched"
    /\ IF ~Truthy(raw_data)
       THEN /\ pending' = [message |-> "Data pipeline failed at the Fetch Data stage.",
                           result |-> FetchFailedResult]
            /\ pc' = "notify_failure"
       ELSE /\ pc' = "process"
            /\ UNCHANGED pending
    /\ UNCHANGED <<env, fetchLog, raw_data, txt_buffer, putLog, sleeps,
                   upload_status, pubLog, result>>

\* lines 214-223
ProcessData ==
    /\ pc = "process"
    /\ txt_buffer' = process_data(raw_data)
    /\ IF txt_buffer'.kind = "none"
       THEN /\ pending' = [message |-> "Data pipeline failed at the Process Data stage.",
                           result |-> ProcessFailedResult]
            /\ pc' = "notify_failure"
       ELSE /\ pc' = "upload"
            /\ UNCHANGED pending
    /\ UNCHANGED <<env, fetchLog, raw_data, putLog, sleeps, upload_status,
                   pubLog, result>>

(***************************************************************************)
(* upload_to_s3: one pass of the loop body, lines 131-156                  *)
(***************************************************************************)
\* put_object returns, raises BotoCoreError/ClientError, or raises an
\* exception of another class.
PutOutcomes == {"ok", "storage_error", "other_error"}

\* StringIO.seek(0) and StringIO.getvalue()
seek0(buf) == [buf EXCEPT !.pos = 0]
getvalue(buf) == buf.lines

\* Body of a put: lines 134 and 143.  The mutant is a Body read from the
\* cursor with the seek left out.
UploadBodyFromCursor(buf) == SubSeq(buf.lines, buf.pos + 1, Len(buf.lines))
UploadBody(buf) == getvalue(seek0(buf))

\* mutant: the delay is slept before the test for the last attempt
PutObjectSleepsFirst ==
    /\ pc = "upload"
    /\ LET attempt == Len(putLog) + 1
           buf == seek0(txt_buffer)
       IN  \E o \in PutOutcomes :
              /\ txt_buffer' = buf
              /\ putLog' = Append(putLog, [outcome |-> o,
                                              Body |-> UploadBody(txt_buffer)])
              /\ CASE o = "ok" ->
                        /\ upload_status' = "upload_successful"
                        /\ pc' = "uploaded"
                        /\ UNCHANGED sleeps
                   [] o = "storage_error" ->
                        /\ sleeps' = Append(sleeps, Delay)
                        /\ IF attempt < Retries
                           THEN /\ pc' = "upload"
                                /\ UNCHANGED upload_status
                           ELSE /\ upload_status' = "upload_failed"
                                /\ pc' = "uploaded"
                   [] o = "other_error" ->
                        \* no except clause matches, neither in
                        \* upload_to_s3 nor in lambda_handler
                        /\ pc' = "raised"
                        /\ UNCHANGED <<upload_status, sleeps>>
    /\ UNCHANGED <<env, fetchLog, raw_data, pubLog, pending, result>>

PutObject ==
    /\ pc = "upload"
    /\ LET attempt == Len(putLog) + 1
           buf == seek0(txt_buffer)
       IN  \E o \in PutOutcomes :
              /\ txt_buffer' = buf
              /\ putLog' = Append(putLog, [outcome |-> o,
                                              Body |-> UploadBody(txt_buffer)])
              /\ CASE o = "ok" ->
                        /\ upload_status' = "upload_successful"
                        /\ pc' = "uploaded"
                        /\ UNCHANGED sleeps
                   [] o = "storage_error" ->
                        IF attempt < Retries
                        THEN /\ sleeps' = Append(sleeps, Delay)
                             /\ pc' = "upload"
                             /\ UNCHANGED upload_status
                        ELSE /\ upload_status' = "upload_failed"
                             /\ pc' = "uploaded"
                             /\ UNCHANGED sleeps
                   [] o = "other_error" ->
                        \* no except clause matches, neither in
                        \* upload_to_s3 nor in lambda_handler
                        /\ pc' = "raised"
                        /\ UNCHANGED <<upload_status, sleeps>>
    /\ UNCHANGED <<env, fetchLog, raw_data, pubLog, pending, result>>

\* lines 226-243
CheckUpload ==
    /\ pc = "uploaded"
    /\ IF upload_status = "upload_failed"
       THEN /\ pending' = [message |-> "Data pipeline failed during S3 upload.",
                           result |-> UploadFailedResult]
            /\ pc' = "notify_failure"
       ELSE IF upload_status = "upload_successful"
       THEN /\ pending' = [message |-> "All pipeline processes completed successfully!",
                           result |-> SuccessResult]
            /\ pc' = "notify_success"
       ELSE /\ pc' = "done"         \* falls off the end, returns None
            /\ UNCHANGED pending
    /\ UNCHANGED <<env, fetchLog, raw_data, txt_buffer, putLog, sleeps,
                   upload_status, pubLog, result>>

(***************************************************************************)
(* notify_failure, notify_success, and lambda_handler's return after them  *)
(***************************************************************************)
\* sns_client.publish returns a response or raises.
PublishOutcomes == {"ok", "raise"}

Publication(subject, o) ==
    [TopicArn |-> env["SNS_TOPIC_ARN"], Message |-> pending.message,
     Subject |-> subject, outcome |-> o]

NotifyFailureUncaught ==
    /\ pc = "notify_failure"
    /\ IF ~TruthyStr(env["SNS_TOPIC_ARN"])
       THEN /\ UNCHANGED pubLog
            /\ result' = pending.result
            /\ pc' = "done"
       ELSE \E o \in PublishOutcomes :
              /\ pubLog' = Append(pubLog, Publication(FailureSubject, o))
              /\ IF o = "raise"
                 THEN pc' = "raised" /\ UNCHANGED result
                 ELSE pc' = "done" /\ result' = pending.result
    /\ UNCHANGED <<env, fetchLog, raw_data, txt_buffer, putLog, sleeps,
                   upload_status, pending>>

NotifyFailureTwice ==
    /\ pc = "notify_failure"
    /\ IF ~TruthyStr(env["SNS_TOPIC_ARN"])
       THEN UNCHANGED pubLog
       ELSE \E o \in PublishOutcomes :
              pubLog' = pubLog \o <<Publication(FailureSubject, "raise"),
                                    Publication(FailureSubject, o)>>
    /\ result' = pending.result
    /\ pc' = "done"
    /\ UNCHANGED <<env, fetchLog, raw_data, txt_buffer, putLog, sleeps,
                   upload_status, pending>>

NotifyFailure ==
    /\ pc = "notify_failure"
    /\ IF ~TruthyStr(env["SNS_TOPIC_ARN"])
       THEN UNCHANGED pubLog                    \* line 263
       ELSE \E o \in PublishOutcomes :          \* a raise is caught, line 272
              pubLog' = Append(pubLog, Publication(FailureSubject, o))
    /\ result' = pending.result
    /\ pc' = "done"
    /\ UNCHANGED <<env, fetchLog, raw_data, txt_buffer, putLog, sleeps,
                   upload_status, pending>>

NotifySuccessNoCheck ==
    /\ pc = "notify_success"
    /\ \E o \in PublishOutcomes :
          pubLog' = Append(pubLog, Publication(SuccessSubject, o))
    /\ result' = pending.result
    /\ pc' = "done"
    /\ UNCHANGED <<env, fetchLog, raw_data, txt_buffer, putLog, sleeps,
                   upload_status, pending>>

NotifySuccess ==
    /\ pc = "notify_success"
    /\ IF ~TruthyStr(env["SNS_TOPIC_ARN"])
       THEN UNCHANGED pubLog                    \* line 289
       ELSE \E o \in PublishOutcomes :          \* a raise is caught, line 298
              pubLog' = Append(pubLog, Publication(SuccessSubject, o))
    /\ result' = pending.result
    /\ pc' = "done"
    /\ UNCHANGED <<env, fetchLog, raw_data, txt_buffer, putLog, sleeps,
                   upload_status, pending>>

Next ==
    \/ ValidateEnv
    \/ SessionGet
    \/ CheckFetch
    \/ ProcessData
    \/ PutObject
    \/ CheckUpload
    \/ NotifyFailure
    \/ NotifySuccess

Spec == Init /\ [][Next]_vars

\* The invocation is one thread and every external call returns or raises:
\* a step that can be taken is eventually taken.
FairSpec == Init /\ [][Next]_vars /\ WF_vars(Next)

(***************************************************************************)
(* The functions called on their own, as a test or another caller would:   *)
(* process_data on any value, upload_to_s3 on a buffer whose cursor stands *)
(* anywhere, notify_failure and notify_success under any environment.      *)
(***************************************************************************)
\* the buffers process_data can produce, with the cursor anywhere
Buffers ==
    {[b EXCEPT !.pos = p] :
        b \in {process_data(j) : j \in JsonValues} \ {NoBuffer},
        p \in 0..(MaxBatch + 1)}

AllSetEnv ==
    [v \in {"API_URL", "S3_BUCKET", "S3_KEY", "SNS_TOPIC_ARN"} |->
        IF v = "API_URL" THEN HttpsUrl ELSE "set"]

\* process_data(data), lines 77-111, called directly
CallProcessData ==
    /\ pc = "call_process_data"
    /\ txt_buffer' = process_data(raw_data)
    /\ pc' = "returned"
    /\ UNCHANGED <<env, fetchLog, raw_data, putLog, sleeps, upload_status,
                   pubLog, pending, result>>

UnitInit ==
    /\ fetchLog = <<>>
    /\ putLog = <<>>
    /\ sleeps = <<>>
    /\ upload_status = "unset"
    /\ pubLog = <<>>
    /\ result = NoResult
    /\ \/ /\ pc = "call_process_data"
          /\ raw_data \in JsonValues
          /\ txt_buffer = NoBuffer
          /\ env = AllSetEnv
          /\ pending = NoPending
       \/ /\ pc = "upload"
          /\ raw_data = PyNone
          /\ txt_buffer \in {b \in Buffers : b.pos <= Len(b.lines)}
          /\ env = AllSetEnv
          /\ pending = NoPending
       \/ /\ pc = "notify_failure"
          /\ raw_data = PyNone
          /\ txt_buffer = NoBuffer
          /\ env \in Envs
          /\ pending \in
               {[message |-> "Missing required environment variables.",
                 result |-> MissingEnvResult],
                [message |-> "Data pipeline failed during S3 upload.",
                 result |-> UploadFailedResult]}
       \/ /\ pc = "notify_success"
          /\ raw_data = PyNone
          /\ txt_buffer = NoBuffer
          /\ env \in Envs
          /\ pending =
               [message |-> "All pipeline processes completed successfully!",
                result |-> SuccessResult]

UnitNext ==
    \/ CallProcessData
    \/ PutObject
    \/ NotifyFailure
    \/ NotifySuccess

UnitSpec == UnitInit /\ [][UnitNext]_vars

TypeOK ==
    /\ pc \in {"validate", "fetch", "fetched", "process", "upload", "uploaded",
               "notify_failure", "notify_success", "done", "raised",
               "call_process_data", "returned"}
    /\ upload_status \in {"unset", "upload_successful", "upload_failed"}
    /\ Len(fetchLog) <= RetryTotal + 1
    /\ Len(putLog) <= Retries

(***************************************************************************)
(* Vocabulary of the properties                                            *)
(***************************************************************************)
Finished == pc \in {"done", "raised"}

EnvAllSet ==
    \A v \in {"API_URL", "S3_BUCKET", "S3_KEY", "SNS_TOPIC_ARN"} :
        env[v] # NoneStr /\ env[v] # ""

LastResponse == fetchLog[Len(fetchLog)]

\* the endpoint's last answer was 200 with a body that parses as JSON
FetchSucceeded ==
    /\ fetchLog # <<>>
    /\ LastResponse.type = "http"
    /\ LastResponse.status = 200
    /\ LastResponse.json.kind # "invalid"

TransformSucceeded == txt_buffer.kind = "buffer"

UploadSucceeded == \E i \in 1..Len(putLog) : putLog[i].outcome = "ok"

\* the branch of lambda_handler that the stage outcomes select
FailedAt ==
    IF ~EnvAllSet THEN "validate"
    ELSE IF ~Truthy(raw_data) THEN "fetch"
    ELSE IF txt_buffer.kind = "none" THEN "process"
    ELSE IF upload_status = "upload_failed" THEN "upload"
    ELSE "nowhere"

AllResponses(s) ==
    \A i \in 1..Len(fetchLog) :
        fetchLog[i].type = "http" /\ fetchLog[i].status = s

(***************************************************************************)
(* C1.  Every run of lambda_handler, whichever stage fails or none,        *)
(* publishes exactly one notification.  Stated on the finished run: the    *)
(* number of publish calls made is 1, in a run whose notification channel  *)
(* is configured.  The code does not satisfy it.                           *)
(***************************************************************************)
C1_ExactlyOneNotification ==
    (Finished /\ TruthyStr(env["SNS_TOPIC_ARN"])) => Len(pubLog) = 1

(***************************************************************************)
(* C2.  A returned result has statusCode 200 exactly when validation,      *)
(* fetch, transform and upload all succeeded; each failure branch returns  *)
(* 500 with its own body, and the five bodies tell the branches apart.     *)
(***************************************************************************)
C2_StatusAndBodyPerBranch ==
    /\ Finished =>
          (result.statusCode = 200 <=>
              (EnvAllSet /\ FetchSucceeded /\ TransformSucceeded
                 /\ UploadSucceeded))
    /\ pc = "done" =>
        /\ result.statusCode \in {200, 500}
        /\ FailedAt = "validate" <=>
              result = [statusCode |-> 500,
                        body |-> "Missing required environment variables."]
        /\ FailedAt = "fetch" <=>
              result = [statusCode |-> 500, body |-> "Data fetch failed."]
        /\ FailedAt = "process" <=>
              result = [statusCode |-> 500, body |-> "Data processing failed."]
        /\ FailedAt = "upload" <=>
              result = [statusCode |-> 500, body |-> "S3 upload failed."]
        /\ FailedAt = "nowhere" <=>
              result = [statusCode |-> 200,
                        body |-> "Pipeline completed successfully."]

C2_Witness ==
    /\ pc = "done"
    /\ upload_status = "upload_failed"
    /\ result.statusCode = 500

(***************************************************************************)
(* C3.  No exception escapes lambda_handler, whatever the fetch, the       *)
(* transform, the put and the publish do.  The code does not satisfy it:   *)
(* a put that raises outside BotoCoreError/ClientError is caught nowhere.  *)
(***************************************************************************)
C3_NoExceptionEscapes == pc # "raised"

(***************************************************************************)
(* C4.  At every point of an invocation at most one message has been       *)
(* published.                                                              *)
(***************************************************************************)
C4_AtMostOneNotification == Len(pubLog) <= 1

C4_Witness ==
    /\ pc = "done"
    /\ Len(pubLog) = 1
    /\ FailedAt = "fetch"

(***************************************************************************)
(* C5.  upload_to_s3 never raises: once it is left, it has returned        *)
(* "upload_successful" or "upload_failed".  The code does not satisfy it.  *)
(***************************************************************************)
C5_UploadReturnsStatus ==
    (putLog # <<>> /\ pc # "upload") =>
        upload_status \in {"upload_successful", "upload_failed"}

(***************************************************************************)
(* C6.  upload_to_s3 makes exactly 3 puts when each fails with a storage   *)
(* error and then returns "upload_failed"; when put k is the first that    *)
(* does not fail it returns "upload_successful" after exactly k puts and   *)
(* no put follows.                                                         *)
(***************************************************************************)
C6_UploadAttempts ==
    /\ Len(putLog) <= 3
    /\ upload_status = "upload_failed" <=>
          /\ Len(putLog) = 3
          /\ \A i \in 1..3 : putLog[i].outcome = "storage_error"
    /\ \A k \in 1..Len(putLog) :
          putLog[k].outcome = "ok" =>
              /\ k = Len(putLog)
              /\ upload_status = "upload_successful"
              /\ \A i \in 1..(k - 1) : putLog[i].outcome = "storage_error"
    /\ upload_status = "upload_successful" =>
          putLog[Len(putLog)].outcome = "ok"

C6_Witness ==
    /\ pc = "done"
    /\ upload_status = "upload_failed"
    /\ Len(putLog) = 3
    /\ Len(sleeps) = 2

(***************************************************************************)
(* C7 as claimed.  fetch_data_with_retry sends exactly 1 request when the  *)
(* endpoint answers 200, exactly 1 when it answers 404, and at most 3 when *)
(* it answers 503 every time.  The code does not satisfy the last part.    *)
(***************************************************************************)
C7_AtMostThreeAttempts ==
    /\ (fetchLog # <<>> /\ fetchLog[1] \in {HttpResponse(200, j) :
                                              j \in JsonValues \cup {NotJson}})
          => Len(fetchLog) = 1
    /\ (fetchLog # <<>> /\ fetchLog[1] = HttpResponse(404, PyNone))
          => Len(fetchLog) = 1
    /\ AllResponses(503) => Len(fetchLog) <= 3

(***************************************************************************)
(* C7 as amended.  Exactly 1 request on 200, exactly 1 on 404; when the    *)
(* endpoint answers 503 every time the fetch ends after 4 requests (the    *)
(* first and the 3 retries of Retry(total=3)) for an https:// URL and      *)
(* after 1 request for an http:// URL, which the retrying adapter does not *)
(* serve: at most 4 attempts in total.                                     *)
(***************************************************************************)
C7_AtMostFourAttempts ==
    /\ (fetchLog # <<>> /\ fetchLog[1] \in {HttpResponse(200, j) :
                                              j \in JsonValues \cup {NotJson}})
          => Len(fetchLog) = 1
    /\ (fetchLog # <<>> /\ fetchLog[1] = HttpResponse(404, PyNone))
          => Len(fetchLog) = 1
    /\ AllResponses(503) => Len(fetchLog) <= 4
    /\ (AllResponses(503) /\ fetchLog # <<>> /\ pc # "fetch") =>
          Len(fetchLog) = IF env["API_URL"] = "https://api" THEN 4 ELSE 1

C7_Witness ==
    /\ pc = "fetched"
    /\ Len(fetchLog) = 4
    /\ AllResponses(503)

C9_MissingVarStopsBeforeNetwork ==
    (\E v \in {"API_URL", "S3_BUCKET", "S3_KEY", "SNS_TOPIC_ARN"} :
        env[v] = NoneStr)
    => /\ fetchLog = <<>>
       /\ putLog = <<>>
       /\ pc \in {"validate", "notify_failure", "done"}
       /\ pc = "done" =>
             result = [statusCode |-> 500,
                       body |-> "Missing required environment variables."]

C9_Witness ==
    /\ pc = "done"
    /\ env["S3_KEY"] = NoneStr
    /\ \A v \in {"API_URL", "S3_BUCKET", "SNS_TOPIC_ARN"} : TruthyStr(env[v])
    /\ result.statusCode = 500

(***************************************************************************)
(* C10.  A publish that raises does not propagate and does not change the  *)
(* result: once publish has been called, whether it returned or raised,    *)
(* lambda_handler has returned the result that the outcomes of validation, *)
(* fetch, transform and upload select.                                     *)
(***************************************************************************)
C10_PublishErrorSwallowed ==
    pubLog # <<>> =>
        /\ pc = "done"
        /\ result =
             CASE FailedAt = "validate" ->
                    [statusCode |-> 500,
                     body |-> "Missing required environment variables."]
               [] FailedAt = "fetch" ->
                    [statusCode |-> 500, body |-> "Data fetch failed."]
               [] FailedAt = "process" ->
                    [statusCode |-> 500, body |-> "Data processing failed."]
               [] FailedAt = "upload" ->
                    [statusCode |-> 500, body |-> "S3 upload failed."]
               [] FailedAt = "nowhere" ->
                    [statusCode |-> 200,
                     body |-> "Pipeline completed successfully."]

C10_Witness ==
    /\ pc = "done"
    /\ Len(pubLog) = 1
    /\ pubLog[1].outcome = "raise"
    /\ result.statusCode = 500

(***************************************************************************)
(* C11.  With SNS_TOPIC_ARN not configured notify_failure and              *)
(* notify_success publish nothing and do not raise; they return, and the   *)
(* caller returns its result.  Checked on the notifiers called under any   *)
(* environment.                                                            *)
(***************************************************************************)
C11_NoChannelNoOp ==
    ~TruthyStr(env["SNS_TOPIC_ARN"]) =>
        /\ pubLog = <<>>
        /\ pc # "raised"
        /\ (pending # NoPending /\ pc \notin {"notify_failure", "notify_success"})
              => (pc = "done" /\ result = pending.result)

C11_Witness ==
    /\ pc = "done"
    /\ env["SNS_TOPIC_ARN"] = NoneStr
    /\ pubLog = <<>>
    /\ result = [statusCode |-> 200, body |-> "Pipeline completed successfully."]

(***************************************************************************)
(* C12.  process_data called on None or on an empty list returns None,     *)
(* never a buffer.                                                         *)
(***************************************************************************)
C12_EmptyInputFails ==
    (pc = "returned" /\ (raw_data = PyNone \/ raw_data = JsonList(<<>>)))
        => (txt_buffer.kind = "none" /\ txt_buffer.lines = <<>>)

C12_Witness ==
    /\ pc = "returned"
    /\ raw_data = JsonList(<<>>)
    /\ txt_buffer.kind = "none"

(***************************************************************************)
(* C13.  For a non-empty batch whose records all carry a numeric price,    *)
(* process_data returns a buffer whose data rows are exactly the records   *)
(* with price > 50 (a price of 50 is left out), one row per record, in the *)
(* order of the batch.                                                     *)
(***************************************************************************)
AllNumeric(data) ==
    /\ data.kind = "list"
    /\ data.items # <<>>
    /\ \A i \in 1..Len(data.items) : data.items[i].price.kind = "num"

Processed ==
    pc \in {"upload", "uploaded", "notify_failure", "notify_success", "done",
            "raised", "returned"}

DataRows == SubSeq(txt_buffer.lines, 2, Len(txt_buffer.lines))

C13_RowsAreRecordsAboveThreshold ==
    (AllNumeric(raw_data) /\ Processed) =>
        /\ txt_buffer.kind = "buffer"
        /\ txt_buffer.lines[1] = HeaderRow
        /\ \A k \in 1..Len(DataRows) :
              /\ DataRows[k].id \in 1..Len(raw_data.items)
              /\ DataRows[k] = raw_data.items[DataRows[k].id]
              /\ DataRows[k].price.val > 50
        /\ \A i \in 1..Len(raw_data.items) :
              raw_data.items[i].price.val > 50 =>
                  \E k \in 1..Len(DataRows) : DataRows[k].id = i
        /\ \A k1, k2 \in 1..Len(DataRows) :
              k1 < k2 => DataRows[k1].id < DataRows[k2].id

C13_Witness ==
    /\ pc = "upload"
    /\ Len(raw_data.items) = 2
    /\ raw_data.items[1].price = [kind |-> "num", val |-> 51]
    /\ raw_data.items[2].price = [kind |-> "num", val |-> 50]
    /\ Len(txt_buffer.lines) = 2

(***************************************************************************)
(* C14.  Within one invocation the stages run in the order validate,       *)
(* fetch, transform, upload; a stage is entered only after the stages      *)
(* before it succeeded and is never entered again once left; a failed      *)
(* stage leads straight to the notification; only the fetch and the upload *)
(* repeat a step (their retries), and the handler never starts over.       *)
(***************************************************************************)
StageRank(p) ==
    CASE p = "validate" -> 0
      [] p = "fetch" -> 1
      [] p = "fetched" -> 2
      [] p = "process" -> 3
      [] p = "upload" -> 4
      [] p = "uploaded" -> 5
      [] p \in {"notify_failure", "notify_success"} -> 6
      [] OTHER -> 7

C14_StageOrderStep ==
    /\ StageRank(pc') >= StageRank(pc)
    /\ StageRank(pc') = StageRank(pc) => pc \in {"fetch", "upload"}
    \* a stage is entered only after the earlier ones succeeded
    /\ pc' = "fetch" => (pc \in {"validate", "fetch"} /\ EnvAllSet)
    /\ pc' = "process" => (pc = "fetched" /\ EnvAllSet /\ Truthy(raw_data))
    /\ pc' = "upload" =>
          (pc \in {"process", "upload"} /\ Truthy(raw_data)
             /\ txt_buffer'.kind = "buffer")
    \* each stage's work happens at its own position only
    /\ fetchLog' # fetchLog => pc = "fetch"
    /\ txt_buffer'.lines # txt_buffer.lines => pc = "process"
    /\ putLog' # putLog => pc = "upload"
    \* a failed stage goes straight to the notification
    /\ (pc = "validate" /\ ~EnvAllSet) => pc' = "notify_failure"
    /\ (pc = "fetched" /\ ~Truthy(raw_data)) => pc' = "notify_failure"
    /\ (pc = "process" /\ txt_buffer'.kind = "none") => pc' = "notify_failure"
    /\ (pc = "uploaded" /\ upload_status = "upload_failed")
          => pc' = "notify_failure"

C14_StagesInOrder == [][C14_StageOrderStep]_vars

C14_Witness ==
    /\ pc = "done"
    /\ Len(fetchLog) = 2
    /\ Len(putLog) = 2
    /\ UploadSucceeded

(***************************************************************************)
(* C15.  When the API answers 200 with an empty JSON list, the run is      *)
(* reported as a failure of the transform stage: the value returned is 500 *)
(* with body "Data processing failed.".  The code does not satisfy it: the *)
(* handler's `if not raw_data` takes the empty list for a failed fetch.    *)
(***************************************************************************)
C15_EmptyListIsTransformFailure ==
    (pc = "done" /\ fetchLog # <<>>
       /\ LastResponse = HttpResponse(200, JsonList(<<>>)))
    => result = [statusCode |-> 500, body |-> "Data processing failed."]

(***************************************************************************)
(* C16.  For a non-empty batch in which some or all records have no price  *)
(* or a non-numeric price, process_data returns a buffer whose rows are    *)
(* the records with a numeric price above 50.  The code does not satisfy   *)
(* it: the comparison raises and process_data returns None.                *)
(***************************************************************************)
C16_FilterFailsClosed ==
    (Processed /\ raw_data.kind = "list" /\ raw_data.items # <<>>
       /\ ~AllNumeric(raw_data))
    => /\ txt_buffer.kind = "buffer"
       /\ DataRows =
            SelectSeq(raw_data.items,
                      LAMBDA r : r.price.kind = "num" /\ r.price.val > 50)

(***************************************************************************)
(* C17.  Every put of upload_to_s3, the first and each retry, carries the  *)
(* whole content of the buffer from its first line, wherever the cursor    *)
(* stood when upload_to_s3 was called: all Bodies are equal and equal to   *)
(* the buffer's content.                                                   *)
(***************************************************************************)
C17_EveryPutSendsWholePayload ==
    \A k \in 1..Len(putLog) :
        /\ putLog[k].Body = txt_buffer.lines
        /\ putLog[k].Body = putLog[1].Body
        /\ Len(putLog[k].Body) >= 1
        /\ putLog[k].Body[1] = HeaderRow

C17_Witness ==
    /\ Len(putLog) = 3
    /\ putLog[1].outcome = "storage_error"
    /\ putLog[2].outcome = "storage_error"
    /\ Len(putLog[3].Body) = 3

(***************************************************************************)
(* C18.  The notification matches the outcome: the success subject is      *)
(* published only in a run in which a put succeeded and 200 is returned,   *)
(* the failure subject only in a run that returns 500, and no run          *)
(* publishes both.                                                         *)
(***************************************************************************)
C18_SubjectMatchesOutcome ==
    /\ \A i \in 1..Len(pubLog) :
          /\ pubLog[i].Subject \in {"Data Pipeline Success Notification",
                                    "Data Pipeline Failure Notification"}
          /\ pubLog[i].Subject = "Data Pipeline Success Notification" =>
                (UploadSucceeded /\ pc = "done" /\ result.statusCode = 200)
          /\ pubLog[i].Subject = "Data Pipeline Failure Notification" =>
                (pc = "done" /\ result.statusCode = 500)
    /\ \A i, j \in 1..Len(pubLog) : pubLog[i].Subject = pubLog[j].Subject

C18_Witness ==
    /\ pc = "done"
    /\ Len(pubLog) = 1
    /\ pubLog[1].Subject = "Data Pipeline Success Notification"
    /\ result.statusCode = 200

(***************************************************************************)
(* C19.  A non-empty batch whose prices are all numeric and none above 50  *)
(* is no failure: process_data returns a buffer holding the header line    *)
(* only, the upload is entered, and when a put succeeds the success        *)
(* notification is published and 200 is returned.                          *)
(***************************************************************************)
NoneAboveThreshold(data) ==
    /\ AllNumeric(data)
    /\ \A i \in 1..Len(data.items) : data.items[i].price.val <= 50

C19_HeaderOnlyPayloadSucceeds ==
    NoneAboveThreshold(raw_data) =>
        /\ Processed =>
              (txt_buffer.kind = "buffer" /\ txt_buffer.lines = <<HeaderRow>>)
        /\ pc = "notify_failure" => upload_status = "upload_failed"
        /\ (pc = "done" /\ UploadSucceeded) =>
              /\ result = [statusCode |-> 200,
                           body |-> "Pipeline completed successfully."]
              /\ Len(pubLog) = 1
              /\ pubLog[1].Subject = "Data Pipeline Success Notification"
        /\ (pc = "done" /\ result.statusCode = 500) =>
              (Len(putLog) = 3 /\ ~UploadSucceeded)

C19_Witness ==
    /\ pc = "done"
    /\ NoneAboveThreshold(raw_data)
    /\ Len(putLog) = 1
    /\ result.statusCode = 200

(***************************************************************************)
(* C20.  When every external call returns or raises, every invocation of   *)
(* lambda_handler ends; the upload makes at most 3 puts and sleeps at most *)
(* twice, and the handler never goes back to an earlier stage.             *)
(***************************************************************************)
C20_Terminates ==
    /\ <>Finished
    /\ [](Len(putLog) <= 3 /\ Len(sleeps) <= 2)
    /\ [][StageRank(pc') >= StageRank(pc)]_vars

C20_Witness ==
    /\ Finished
    /\ Len(fetchLog) = 4
    /\ Len(putLog) = 3
    /\ Len(sleeps) = 2

====
